---- MODULE Spec2Model ----
(***************************************************************************)
(* A model of cells.cpp: Conway's Game of Life on a torus, stepped on a    *)
(* timer by SDL_AppIterate, with cells painted by dragging the mouse.      *)
(*                                                                         *)
(* The grid is scaled down from 480 x 270 to SIM_WIDTH x SIM_HEIGHT; every *)
(* other definition follows the source.  Operators that model a function   *)
(* of the source take and return a record g of the globals the function    *)
(* reads and writes:                                                       *)
(*   g.cur    currentState          g.nxt    nextState                     *)
(*   g.pts    renderPoints[0 .. renderPointCount-1]                        *)
(*   g.needs  needs_new_render                                             *)
(*   g.calls  the calls of Try_Paint_Point made so far, as <<x, y, ret>>   *)
(***************************************************************************)
EXTENDS Integers, Sequences, FiniteSets, TLC

\* ------------------------------------------------------------------ sizes

\* the width and height of the simulation (480 x 270 in the source)
SIM_WIDTH == 6
SIM_HEIGHT == 6

\* the number of pixels per simulation cell
RENDER_SCALE == 4

\* maximum number of simulation steps per second
MAX_STEPS_PER_SECOND == 20

Cells == (0 .. SIM_WIDTH - 1) \X (0 .. SIM_HEIGHT - 1)

AllDead == [c \in Cells |-> FALSE]

Abs(n) == IF n < 0 THEN -n ELSE n

\* (int)(p / RENDER_SCALE) for a float p holding a whole number of pixels:
\* the float quotient converted to int, which truncates toward zero
CellOf(p) == IF p >= 0 THEN p \div RENDER_SCALE ELSE -((-p) \div RENDER_SCALE)

\* ------------------------------------------------------ render change set

\* Clear_Rendered_Points leaving the points where they are
Clear_Rendered_Points_Keep(g) == g

Clear_Rendered_Points(g) == [g EXCEPT !.pts = <<>>]

\* Add_Rendered_Point without the store into renderPoints
Add_Rendered_Point_Drop(g, x, y) == [g EXCEPT !.needs = TRUE]

Add_Rendered_Point(g, x, y) ==
    [g EXCEPT !.pts = Append(@, <<x, y>>), !.needs = TRUE]

\* --------------------------------------------------------------- painting

\* the record of one call of Try_Paint_Point and of the value it returned
Returned(g, x, y, ret) == [g EXCEPT !.calls = Append(@, <<x, y, ret>>)]

\* Try_Paint_Point with the coordinate wrapped onto the grid, never rejected
Try_Paint_Point_Wrap(g, x, y) ==
    LET wx == x % SIM_WIDTH
        wy == y % SIM_HEIGHT
    IN  IF g.cur[<<wx, wy>>] = FALSE
        THEN Returned(Add_Rendered_Point(
                         [g EXCEPT !.cur[<<wx, wy>>] = TRUE], wx, wy), x, y, TRUE)
        ELSE Returned(g, x, y, TRUE)

\* Try_Paint_Point without the test that the cell is dead
Try_Paint_Point_Always(g, x, y) ==
    IF x >= 0 /\ y >= 0 /\ x < SIM_WIDTH /\ y < SIM_HEIGHT
    THEN Returned(Add_Rendered_Point(
                     [g EXCEPT !.cur[<<x, y>>] = TRUE], x, y), x, y, TRUE)
    ELSE Returned(g, x, y, FALSE)

Try_Paint_Point(g, x, y) ==
    IF x >= 0 /\ y >= 0 /\ x < SIM_WIDTH /\ y < SIM_HEIGHT
    THEN IF g.cur[<<x, y>>] = FALSE
         THEN Returned(Add_Rendered_Point(
                          [g EXCEPT !.cur[<<x, y>>] = TRUE], x, y), x, y, TRUE)
         ELSE Returned(g, x, y, TRUE)
    ELSE Returned(g, x, y, FALSE)

\* the loop of Paint_Line_Shallow from column x on, with the running y and error
RECURSIVE ShallowLoop(_, _, _, _, _, _, _, _)
ShallowLoop(g, x, y, error, x1, step, dx, dy) ==
    IF x <= x1
    THEN LET g1 == Try_Paint_Point(g, x, y)
             adv == error > 0
             y2 == IF adv THEN y + step ELSE y
             e2 == IF adv THEN error - 2 * dx ELSE error
         IN  ShallowLoop(g1, x + 1, y2, e2 + 2 * dy, x1, step, dx, dy)
    ELSE g

\* Paint_Line_Shallow with the error started at 2 * dy
Paint_Line_Shallow_Bias(g, x0, y0, x1, y1, dx, dy) ==
    LET step == IF y1 < y0 THEN -1 ELSE 1
    IN  ShallowLoop(g, x0, y0, 2 * dy, x1, step, dx, dy)

\* Paint_Line_Shallow with the loop test x < x1
Paint_Line_Shallow_Open(g, x0, y0, x1, y1, dx, dy) ==
    LET step == IF y1 < y0 THEN -1 ELSE 1
    IN  ShallowLoop(g, x0, y0, 2 * dy - dx, x1 - 1, step, dx, dy)

Paint_Line_Shallow(g, x0, y0, x1, y1, dx, dy) ==
    LET step == IF y1 < y0 THEN -1 ELSE 1
    IN  ShallowLoop(g, x0, y0, 2 * dy - dx, x1, step, dx, dy)

\* the loop of Paint_Line_Steep from row y on, with the running x and error
RECURSIVE SteepLoop(_, _, _, _, _, _, _, _)
SteepLoop(g, y, x, error, y1, step, dx, dy) ==
    IF y <= y1
    THEN LET g1 == Try_Paint_Point(g, x, y)
             adv == error > 0
             x2 == IF adv THEN x + step ELSE x
             e2 == IF adv THEN error - 2 * dy ELSE error
         IN  SteepLoop(g1, y + 1, x2, e2 + 2 * dx, y1, step, dx, dy)
    ELSE g

\* Paint_Line_Steep stepping x to the right whatever the direction
Paint_Line_Steep_Right(g, x0, y0, x1, y1, dx, dy) ==
    SteepLoop(g, y0, x0, 2 * dx - dy, y1, 1, dx, dy)

Paint_Line_Steep(g, x0, y0, x1, y1, dx, dy) ==
    LET step == IF x1 < x0 THEN -1 ELSE 1
    IN  SteepLoop(g, y0, x0, 2 * dx - dy, y1, step, dx, dy)

\* Paint_Line drawing from the first endpoint whatever the direction
Paint_Line_NoSwap(g, x0, y0, x1, y1) ==
    LET dx == Abs(x1 - x0)
        dy == Abs(y1 - y0)
    IN  IF dy <= dx
        THEN Paint_Line_Shallow(g, x0, y0, x1, y1, dx, dy)
        ELSE Paint_Line_Steep(g, x0, y0, x1, y1, dx, dy)

\* Paint_Line with a line of dy = dx given to the steep branch
Paint_Line_SteepTie(g, x0, y0, x1, y1) ==
    LET dx == Abs(x1 - x0)
        dy == Abs(y1 - y0)
    IN  IF dy < dx
        THEN IF x0 <= x1 THEN Paint_Line_Shallow(g, x0, y0, x1, y1, dx, dy)
                         ELSE Paint_Line_Shallow(g, x1, y1, x0, y0, dx, dy)
        ELSE IF y0 <= y1 THEN Paint_Line_Steep(g, x0, y0, x1, y1, dx, dy)
                         ELSE Paint_Line_Steep(g, x1, y1, x0, y0, dx, dy)

Paint_Line(g, x0, y0, x1, y1) ==
    LET dx == Abs(x1 - x0)
        dy == Abs(y1 - y0)
    IN  IF dy <= dx
        THEN IF x0 <= x1 THEN Paint_Line_Shallow(g, x0, y0, x1, y1, dx, dy)
                         ELSE Paint_Line_Shallow(g, x1, y1, x0, y0, dx, dy)
        ELSE IF y0 <= y1 THEN Paint_Line_Steep(g, x0, y0, x1, y1, dx, dy)
                         ELSE Paint_Line_Steep(g, x1, y1, x0, y0, dx, dy)

\* ------------------------------------------------------------- simulation

\* WrapX with the column clamped to the edge instead of wrapped
WrapX_Clamp(nx) ==
    IF nx < 0 THEN 0 ELSE IF nx >= SIM_WIDTH THEN SIM_WIDTH - 1 ELSE nx

\* nx = x + dx; if (nx < 0) nx = SIM_WIDTH - 1; if (nx == SIM_WIDTH) nx = 0;
WrapX(nx) ==
    LET a == IF nx < 0 THEN SIM_WIDTH - 1 ELSE nx
    IN  IF a = SIM_WIDTH THEN 0 ELSE a

\* WrapY with the row clamped to the edge instead of wrapped
WrapY_Clamp(ny) ==
    IF ny < 0 THEN 0 ELSE IF ny >= SIM_HEIGHT THEN SIM_HEIGHT - 1 ELSE ny

WrapY(ny) ==
    LET a == IF ny < 0 THEN SIM_HEIGHT - 1 ELSE ny
    IN  IF a = SIM_HEIGHT THEN 0 ELSE a

\* CountDy with the break already once neighbors > 2
RECURSIVE CountDy_Early(_, _, _, _, _, _)
CountDy_Early(cur, x, y, dx, dy, neighbors) ==
    IF dy > 1 THEN neighbors
    ELSE IF dx = 0 /\ dy = 0 THEN CountDy_Early(cur, x, y, dx, dy + 1, neighbors)
    ELSE LET nx == WrapX(x + dx)
             ny == WrapY(y + dy)
             n2 == IF cur[<<nx, ny>>] THEN neighbors + 1 ELSE neighbors
         IN  IF n2 > 2 THEN n2
             ELSE CountDy_Early(cur, x, y, dx, dy + 1, n2)

\* the inner loop over dy, from dy on, for one dx: the break once
\* neighbors > 3 leaves this loop only
RECURSIVE CountDy(_, _, _, _, _, _)
CountDy(cur, x, y, dx, dy, neighbors) ==
    IF dy > 1 THEN neighbors
    ELSE IF dx = 0 /\ dy = 0 THEN CountDy(cur, x, y, dx, dy + 1, neighbors)
    ELSE LET nx == WrapX(x + dx)
             ny == WrapY(y + dy)
             n2 == IF cur[<<nx, ny>>] THEN neighbors + 1 ELSE neighbors
         IN  IF n2 > 3 THEN n2
             ELSE CountDy(cur, x, y, dx, dy + 1, n2)

\* the outer loop over dx, from dx on
RECURSIVE CountDx(_, _, _, _, _)
CountDx(cur, x, y, dx, neighbors) ==
    IF dx > 1 THEN neighbors
    ELSE CountDx(cur, x, y, dx + 1, CountDy(cur, x, y, dx, -1, neighbors))

CountNeighbors(cur, x, y) == CountDx(cur, x, y, -1, 0)

\* StepCell with a live cell dying only above 4 neighbours
StepCell_Crowded(g, x, y) ==
    LET neighbors == CountNeighbors(g.cur, x, y)
    IN  IF g.cur[<<x, y>>]
        THEN IF neighbors < 2 \/ neighbors > 4
             THEN [g EXCEPT !.nxt[<<x, y>>] = FALSE]
             ELSE Add_Rendered_Point([g EXCEPT !.nxt[<<x, y>>] = TRUE], x, y)
        ELSE IF neighbors = 3
             THEN Add_Rendered_Point([g EXCEPT !.nxt[<<x, y>>] = TRUE], x, y)
             ELSE [g EXCEPT !.nxt[<<x, y>>] = FALSE]

\* StepCell writing nextState only where a cell is alive in the next state
StepCell_Stale(g, x, y) ==
    LET neighbors == CountNeighbors(g.cur, x, y)
    IN  IF g.cur[<<x, y>>]
        THEN IF neighbors < 2 \/ neighbors > 3
             THEN g
             ELSE Add_Rendered_Point([g EXCEPT !.nxt[<<x, y>>] = TRUE], x, y)
        ELSE IF neighbors = 3
             THEN Add_Rendered_Point([g EXCEPT !.nxt[<<x, y>>] = TRUE], x, y)
             ELSE g

\* StepCell with a dead cell also born without any neighbour
StepCell_Spontaneous(g, x, y) ==
    LET neighbors == CountNeighbors(g.cur, x, y)
    IN  IF g.cur[<<x, y>>]
        THEN IF neighbors < 2 \/ neighbors > 3
             THEN [g EXCEPT !.nxt[<<x, y>>] = FALSE]
             ELSE Add_Rendered_Point([g EXCEPT !.nxt[<<x, y>>] = TRUE], x, y)
        ELSE IF neighbors = 3 \/ neighbors = 0
             THEN Add_Rendered_Point([g EXCEPT !.nxt[<<x, y>>] = TRUE], x, y)
             ELSE [g EXCEPT !.nxt[<<x, y>>] = FALSE]

\* the body of the two loops over x and y for one cell: the rules
StepCell(g, x, y) ==
    LET neighbors == CountNeighbors(g.cur, x, y)
    IN  IF g.cur[<<x, y>>]
        THEN IF neighbors < 2 \/ neighbors > 3
             THEN [g EXCEPT !.nxt[<<x, y>>] = FALSE]
             ELSE Add_Rendered_Point([g EXCEPT !.nxt[<<x, y>>] = TRUE], x, y)
        ELSE IF neighbors = 3
             THEN Add_Rendered_Point([g EXCEPT !.nxt[<<x, y>>] = TRUE], x, y)
             ELSE [g EXCEPT !.nxt[<<x, y>>] = FALSE]

\* the inner loop over y for column x, from row y on
RECURSIVE StepColumn(_, _, _)
StepColumn(g, x, y) ==
    IF y < SIM_HEIGHT THEN StepColumn(StepCell(g, x, y), x, y + 1) ELSE g

\* the outer loop over x, from column x on; a column is finished before the
\* next one is begun
RECURSIVE StepLoop(_, _)
StepLoop(g, x) ==
    IF x < SIM_WIDTH
    THEN CHOOSE out \in {StepLoop(g1, x + 1) : g1 \in {StepColumn(g, x, 0)}} : TRUE
    ELSE g

Update_Simulation(g) ==
    LET g1 == StepLoop(Clear_Rendered_Points(g), 0)
    IN  [g1 EXCEPT !.cur = g1.nxt, !.nxt = g1.cur]


\* PaintCells without the update of lastMouseCellX and lastMouseCellY
PaintCells_Stale(g, down, mx, my) ==
    IF down
    THEN LET mouseCellX == CellOf(mx)
             mouseCellY == CellOf(my)
             g1 == IF g.was
                   THEN Paint_Line(g, g.lastX, g.lastY, mouseCellX, mouseCellY)
                   ELSE Try_Paint_Point(g, mouseCellX, mouseCellY)
         IN  [g1 EXCEPT !.was = down]
    ELSE [g EXCEPT !.was = down]

\* handles painting for a frame.  g also carries lastMouseCellX/Y (g.lastX,
\* g.lastY) and mouseWasDown (g.was); down, mx, my are mouseDown, mouseX, mouseY
PaintCells(g, down, mx, my) ==
    IF down
    THEN LET mouseCellX == CellOf(mx)
             mouseCellY == CellOf(my)
             g1 == IF g.was
                   THEN Paint_Line(g, g.lastX, g.lastY, mouseCellX, mouseCellY)
                   ELSE Try_Paint_Point(g, mouseCellX, mouseCellY)
         IN  [g1 EXCEPT !.lastX = mouseCellX, !.lastY = mouseCellY, !.was = down]
    ELSE [g EXCEPT !.was = down]

\* elapsed >= seconds_per_step, for elapsed = (float)ms / 1000.0f and
\* seconds_per_step = 1 / rate.  For a whole rate in 1 .. 20 and ms < 2^24 both
\* floats are the correctly rounded quotients, which are more than one ulp apart
\* unless ms * rate = 1000, so the float comparison agrees with the exact one.
\* PeriodElapsed with elapsed > seconds_per_step
PeriodElapsed_Strict(ms, rate) == ms * rate > 1000

PeriodElapsed(ms, rate) == ms * rate >= 1000

\* ShouldStep with a fixed period of 50 ms, whatever the rate
ShouldStep_Fixed(rate, ms) == ms * MAX_STEPS_PER_SECOND >= 1000

\* the pacing test of a frame: not paused, and a step period has elapsed
ShouldStep(rate, ms) == rate > 0 /\ PeriodElapsed(ms, rate)

\* Pace making up a second period that has elapsed with a second step
Pace_CatchUp(g, rate, ms) ==
    IF ShouldStep(rate, ms)
    THEN IF ms * rate >= 2000
         THEN Update_Simulation(Update_Simulation(g))
         ELSE Update_Simulation(g)
    ELSE g

\* the pacing of a frame: one call of Update_Simulation if the test passes
Pace(g, rate, ms) == IF ShouldStep(rate, ms) THEN Update_Simulation(g) ELSE g

\* ------------------------------------------------------------------ state

VARIABLES
    currentState, nextState,        \* the current and next state of the simulation
    renderPoints,                   \* renderPoints[0 .. renderPointCount-1]
    needs_new_render,               \* whether the screen needs to be redrawn
    mouseDown, mouseX, mouseY,      \* left button state, position in window space
    lastMouseCellX, lastMouseCellY, \* last position in simulation space
    mouseWasDown,                   \* if the button was down last frame
    steps_per_second, last_step_time,
    ticks,                          \* the value of SDL_GetTicks(), in ms
    screen,                         \* the points last given to SDL_RenderPoints
    calls,                          \* Try_Paint_Point calls of the last PaintCells
    stepped,                        \* the last frame called Update_Simulation
    elapsed,                        \* the last frame's pacing test, see NoPacing
    pressed,                        \* a press after a release, not yet sampled
    firstSample,                    \* the last PaintCells took a drag's first sample
    stroke                          \* the samples and cells of the current stroke

vars == <<currentState, nextState, renderPoints, needs_new_render,
          mouseDown, mouseX, mouseY, lastMouseCellX, lastMouseCellY,
          mouseWasDown, steps_per_second, last_step_time, ticks, screen,
          calls, stepped, elapsed, pressed, firstSample, stroke>>

simVars == <<currentState, nextState, renderPoints, needs_new_render>>
paintVars == <<lastMouseCellX, lastMouseCellY, mouseWasDown>>
mouseVars == <<mouseDown, mouseX, mouseY>>
paceVars == <<steps_per_second, last_step_time>>
obsVars == <<calls, stepped, elapsed, firstSample, stroke>>

\* the globals as the record the operators work on
Globals ==
    [cur |-> currentState, nxt |-> nextState, pts |-> renderPoints,
     needs |-> needs_new_render, calls |-> <<>>,
     lastX |-> lastMouseCellX, lastY |-> lastMouseCellY, was |-> mouseWasDown]

\* elapsed.ms is now - last_step_time and elapsed.rate is steps_per_second in
\* the pacing test of the last frame; a paused frame makes no test
NoPacing == [ms |-> 0, rate |-> 0]

NoStroke == [first |-> <<0, 0>>, last |-> <<0, 0>>, samples |-> {}, cells |-> {}]

\* the cells a PaintCells call passed to Try_Paint_Point
CallCells(cs) == {<<cs[i][1], cs[i][2]>> : i \in 1 .. Len(cs)}

\* the stroke after a PaintCells call that returned g: a stroke runs over
\* consecutive frames with the button down
StrokeAfter(g) ==
    LET sample == <<CellOf(mouseX), CellOf(mouseY)>>
    IN  IF ~mouseDown THEN NoStroke
        ELSE IF ~mouseWasDown
             THEN [first |-> sample, last |-> sample, samples |-> {sample},
                   cells |-> CallCells(g.calls)]
             ELSE [first |-> stroke.first, last |-> sample,
                   samples |-> stroke.samples \cup {sample},
                   cells |-> stroke.cells \cup CallCells(g.calls)]

\* static storage is zero-initialized; SDL_AppInit reads the clock
Init ==
    /\ currentState = AllDead
    /\ nextState = AllDead
    /\ renderPoints = <<>>
    /\ needs_new_render = TRUE
    /\ mouseDown = FALSE
    /\ mouseX = 0
    /\ mouseY = 0
    /\ lastMouseCellX = 0
    /\ lastMouseCellY = 0
    /\ mouseWasDown = FALSE
    /\ steps_per_second = 0
    /\ last_step_time = 0
    /\ ticks = 0
    /\ screen = <<>>
    /\ calls = <<>>
    /\ stepped = FALSE
    /\ elapsed = NoPacing
    /\ pressed = FALSE
    /\ firstSample = FALSE
    /\ stroke = NoStroke

\* ----------------------------------------------------------------- bounds

\* the clock stops at MaxTicks ms; a frame lasts TickShort or TickLong ms
MaxTicks == 100
TickShort == 25
TickLong == 50
TickDeltas == {TickShort, TickLong}

\* wheel deltas of the whole-program specification
WheelDeltas == {-MAX_STEPS_PER_SECOND, MAX_STEPS_PER_SECOND \div 2}

\* mouse buttons: 1 is the left button
Buttons == {1, 3}

\* the window position of the corner of a cell
PixelOf(c) == <<c[1] * RENDER_SCALE, c[2] * RENDER_SCALE>>

\* the cells just outside the grid that the mouse visits
OutCells == {<<-1, 0>>, <<SIM_WIDTH, 0>>, <<0, SIM_HEIGHT>>}

\* mouse positions of the whole-program specification
SysPoints ==
    {PixelOf(c) : c \in {<<0, 0>>, <<SIM_WIDTH - 1, SIM_HEIGHT - 1>>,
                         <<SIM_WIDTH, 0>>}} \cup {<<-1, -1>>}

\* the corners of the grid
Corners == {0, SIM_WIDTH - 1} \X {0, SIM_HEIGHT - 1}

\* mouse positions of the painting specification
PaintPoints == {PixelOf(c) : c \in Corners \cup OutCells}

\* ----------------------------------------------------------------- events
\* SDL_AppEvent, one action per event type.  SDL_EVENT_QUIT ends the program:
\* no state follows it.

\* MouseWheel without the test against MAX_STEPS_PER_SECOND
MouseWheel_NoCap(delta) ==
    /\ steps_per_second' =
           LET r == steps_per_second + delta IN IF r < 0 THEN 0 ELSE r
    /\ UNCHANGED <<simVars, paintVars, mouseVars, last_step_time, ticks, screen,
                   obsVars, pressed>>

MouseWheel(delta) ==
    /\ steps_per_second' =
           LET r == steps_per_second + delta
               a == IF r < 0 THEN 0 ELSE r
           IN  IF a > MAX_STEPS_PER_SECOND THEN MAX_STEPS_PER_SECOND ELSE a
    /\ UNCHANGED <<simVars, paintVars, mouseVars, last_step_time, ticks, screen,
                   obsVars, pressed>>

MouseButtonDown(button, p) ==
    /\ IF button = 1
       THEN /\ mouseDown' = TRUE
            /\ mouseX' = p[1]
            /\ mouseY' = p[2]
            /\ pressed' = (pressed \/ ~mouseDown)
       ELSE UNCHANGED <<mouseVars, pressed>>
    /\ UNCHANGED <<simVars, paintVars, paceVars, ticks, screen, obsVars>>

MouseMotion(p) ==
    /\ IF mouseDown
       THEN /\ mouseX' = p[1]
            /\ mouseY' = p[2]
            /\ UNCHANGED mouseDown
       ELSE UNCHANGED mouseVars
    /\ UNCHANGED <<simVars, paintVars, paceVars, ticks, screen, obsVars, pressed>>

MouseButtonUp(button) ==
    /\ IF button = 1
       THEN /\ mouseDown' = FALSE
            /\ pressed' = FALSE
            /\ UNCHANGED <<mouseX, mouseY>>
       ELSE UNCHANGED <<mouseVars, pressed>>
    /\ UNCHANGED <<simVars, paintVars, paceVars, ticks, screen, obsVars>>

\* ----------------------------------------------------------------- frames

\* runs every frame; d is the time since the previous frame
AppIterate(d) ==
    /\ ticks + d <= MaxTicks
    /\ LET now == ticks + d
           doStep == ShouldStep(steps_per_second, now - last_step_time)
       IN  \E g1 \in {PaintCells(Globals, mouseDown, mouseX, mouseY)} :
           \E g2 \in {Pace(g1, steps_per_second, now - last_step_time)} :
           /\ currentState' = g2.cur
           /\ nextState' = g2.nxt
           /\ renderPoints' = g2.pts
           /\ needs_new_render' = FALSE
           /\ screen' = IF g2.needs THEN g2.pts ELSE screen
           /\ lastMouseCellX' = g2.lastX
           /\ lastMouseCellY' = g2.lastY
           /\ mouseWasDown' = g2.was
           /\ last_step_time' = IF doStep THEN now ELSE last_step_time
           /\ ticks' = now
           /\ calls' = g2.calls
           /\ stepped' = doStep
           /\ elapsed' = IF steps_per_second > 0
                          THEN [ms |-> now - last_step_time, rate |-> steps_per_second]
                          ELSE NoPacing
           /\ firstSample' = (mouseDown /\ pressed)
           /\ pressed' = FALSE
           /\ stroke' = StrokeAfter(g1)
    /\ UNCHANGED <<mouseVars, steps_per_second>>

\* a frame's call of PaintCells on its own, d ms after the previous frame
PaintCellsCall(d) ==
    /\ ticks + d <= MaxTicks
    /\ \E g1 \in {PaintCells(Globals, mouseDown, mouseX, mouseY)} :
           /\ currentState' = g1.cur
           /\ nextState' = g1.nxt
           /\ renderPoints' = g1.pts
           /\ needs_new_render' = g1.needs
           /\ lastMouseCellX' = g1.lastX
           /\ lastMouseCellY' = g1.lastY
           /\ mouseWasDown' = g1.was
           /\ calls' = g1.calls
           /\ stepped' = FALSE
           /\ elapsed' = elapsed
           /\ firstSample' = (mouseDown /\ pressed)
           /\ pressed' = FALSE
           /\ stroke' = StrokeAfter(g1)
    /\ ticks' = ticks + d
    /\ UNCHANGED <<mouseVars, paceVars, screen>>

\* --------------------------------------------------------- specifications

\* the whole program: events between frames
Next ==
    \/ \E delta \in WheelDeltas : MouseWheel(delta)
    \/ \E b \in Buttons, p \in SysPoints : MouseButtonDown(b, p)
    \/ \E p \in SysPoints : MouseMotion(p)
    \/ \E b \in Buttons : MouseButtonUp(b)
    \/ \E d \in TickDeltas : AppIterate(d)

Spec == Init /\ [][Next]_vars

\* painting alone: mouse events and the frames' calls of PaintCells
NextPaint ==
    \/ \E p \in PaintPoints : MouseButtonDown(1, p)
    \/ \E p \in PaintPoints : MouseMotion(p)
    \/ MouseButtonUp(1)
    \/ PaintCellsCall(TickShort)

SpecPaint == Init /\ [][NextPaint]_vars

\* ----------------------------------------------------------------- events
\* SDL_AppEvent alone: every wheel delta from -WheelMax to WheelMax, which is
\* more than the whole range of the rate in one event, and the mouse events

WheelMax == 22
WheelRange == (-WheelMax) .. WheelMax

NextEvent ==
    \/ \E delta \in WheelRange : MouseWheel(delta)
    \/ \E b \in Buttons, p \in SysPoints : MouseButtonDown(b, p)
    \/ \E p \in SysPoints : MouseMotion(p)
    \/ \E b \in Buttons : MouseButtonUp(b)

SpecEvent == Init /\ [][NextEvent]_vars

\* ----------------------------------------------------------- line raster
\* Paint_Line on its own: the second sample of a drag, for every pair of a
\* first sample a and a second sample b with coordinates in LineCoords.  The
\* initial states are those after a press at a, a frame without a step and a
\* motion to b.

LineLow == 1
LineMax == 7
LineCoords == (-LineLow) .. LineMax
LineCells == LineCoords \X LineCoords

InitLine ==
    \E a \in LineCells, b \in LineCells :
        /\ currentState = [c \in Cells |-> c = a]
        /\ nextState = AllDead
        /\ renderPoints = IF a \in Cells THEN <<a>> ELSE <<>>
        /\ needs_new_render = FALSE
        /\ mouseDown = TRUE
        /\ mouseX = PixelOf(b)[1]
        /\ mouseY = PixelOf(b)[2]
        /\ lastMouseCellX = a[1]
        /\ lastMouseCellY = a[2]
        /\ mouseWasDown = TRUE
        /\ steps_per_second = 0
        /\ last_step_time = 0
        /\ ticks = TickShort
        /\ screen = renderPoints
        /\ calls = << <<a[1], a[2], a \in Cells>> >>
        /\ stepped = FALSE
        /\ elapsed = NoPacing
        /\ pressed = FALSE
        /\ firstSample = TRUE
        /\ stroke = [first |-> a, last |-> a, samples |-> {a}, cells |-> {a}]

NextLine == PaintCellsCall(TickShort)

SpecLine == InitLine /\ [][NextLine]_vars

\* ------------------------------------------------------------------- step
\* Update_Simulation on its own, from every grid whose live cells lie in the
\* 3 x 3 window that straddles both wrapped edges.  A grid is painted cell by
\* cell, x outer and y inner, from the initial state (nextState all dead) or
\* after a step of the full grid, which leaves nextState all alive.

Window ==
    {<<(SIM_WIDTH - 2 + i) % SIM_WIDTH, (SIM_HEIGHT - 2 + j) % SIM_HEIGHT>> :
        i \in 0 .. 2, j \in 0 .. 2}

AllAlive == [c \in Cells |-> TRUE]

\* the live cells of cur from the k-th cell on, x outer and y inner
RECURSIVE LiveFrom(_, _)
LiveFrom(cur, k) ==
    IF k < SIM_WIDTH * SIM_HEIGHT
    THEN LET c == <<k \div SIM_HEIGHT, k % SIM_HEIGHT>>
         IN  (IF cur[c] THEN <<c>> ELSE <<>>) \o LiveFrom(cur, k + 1)
    ELSE <<>>

InitStep ==
    \E live \in SUBSET Window, nxt \in {AllDead, AllAlive} :
        /\ currentState = [c \in Cells |-> c \in live]
        /\ nextState = nxt
        /\ renderPoints = LiveFrom(currentState, 0)
        /\ needs_new_render = FALSE
        /\ mouseDown = FALSE
        /\ mouseX = 0
        /\ mouseY = 0
        /\ lastMouseCellX = 0
        /\ lastMouseCellY = 0
        /\ mouseWasDown = FALSE
        /\ steps_per_second = MAX_STEPS_PER_SECOND
        /\ last_step_time = 0
        /\ ticks = 0
        /\ screen = renderPoints
        /\ calls = <<>>
        /\ stepped = FALSE
        /\ elapsed = NoPacing
        /\ pressed = FALSE
        /\ firstSample = FALSE
        /\ stroke = NoStroke

\* a frame's call of Update_Simulation on its own
UpdateSimulationCall ==
    /\ \E g1 \in {Update_Simulation(Globals)} :
           /\ currentState' = g1.cur
           /\ nextState' = g1.nxt
           /\ renderPoints' = g1.pts
           /\ needs_new_render' = g1.needs
    /\ stepped' = TRUE
    /\ UNCHANGED <<paintVars, mouseVars, paceVars, ticks, screen, calls, elapsed,
                   pressed, firstSample, stroke>>

NextStep == UpdateSimulationCall

SpecStep == InitStep /\ [][NextStep]_vars

\* ----------------------------------------------------------------- glider
\* Update_Simulation on its own, from a glider at every place of the grid and
\* in each of its four directions of travel; nextState as in InitStep.

\* the glider that travels by (1, 1) every four generations
GliderCells == {<<1, 0>>, <<2, 1>>, <<0, 2>>, <<1, 2>>, <<2, 2>>}

Directions == {-1, 1} \X {-1, 1}

\* the glider mirrored to travel in direction s, with its corner at o
GliderAt(o, s) ==
    {<<(o[1] + s[1] * p[1] + SIM_WIDTH) % SIM_WIDTH,
       (o[2] + s[2] * p[2] + SIM_HEIGHT) % SIM_HEIGHT>> : p \in GliderCells}

InitGlider ==
    \E o \in Cells, s \in Directions, nxt \in {AllDead, AllAlive} :
        /\ currentState = [c \in Cells |-> c \in GliderAt(o, s)]
        /\ nextState = nxt
        /\ renderPoints = LiveFrom(currentState, 0)
        /\ needs_new_render = FALSE
        /\ mouseDown = FALSE
        /\ mouseX = 0
        /\ mouseY = 0
        /\ lastMouseCellX = 0
        /\ lastMouseCellY = 0
        /\ mouseWasDown = FALSE
        /\ steps_per_second = MAX_STEPS_PER_SECOND
        /\ last_step_time = 0
        /\ ticks = 0
        /\ screen = renderPoints
        /\ calls = <<>>
        /\ stepped = FALSE
        /\ elapsed = NoPacing
        /\ pressed = FALSE
        /\ firstSample = FALSE
        /\ stroke = NoStroke

NextGlider == UpdateSimulationCall

SpecGlider == InitGlider /\ [][NextGlider]_vars

\* ================================================================= claims

Offsets == ({-1, 0, 1} \X {-1, 0, 1}) \ {<<0, 0>>}

\* the eight neighbours of cell c on the torus
TorusNeighbours(c) ==
    {<<(c[1] + o[1]) % SIM_WIDTH, (c[2] + o[2]) % SIM_HEIGHT>> : o \in Offsets}

\* the number of live neighbours of c in grid cur
LiveNeighbours(cur, c) == Cardinality({n \in TorusNeighbours(c) : cur[n]})

LiveCells(cur) == {c \in Cells : cur[c]}

\* C1: a step decides every cell from the pre-step grid alone: alive with
\* exactly 3 live torus neighbours, unchanged with exactly 2, dead otherwise.
C1_StepRule ==
    [][\A c \in Cells :
          LET n == LiveNeighbours(currentState, c)
          IN  /\ n = 3 => currentState'[c]
              /\ n = 2 => currentState'[c] = currentState[c]
              /\ n \notin {2, 3} => ~currentState'[c]]_simVars

\* after a step nextState holds the pre-step grid: a birth on 3 neighbours and
\* a survival on 2 in the same step
C1_Witness ==
    /\ stepped
    /\ \E b \in Cells, k \in Cells :
          /\ ~nextState[b] /\ LiveNeighbours(nextState, b) = 3 /\ currentState[b]
          /\ nextState[k] /\ LiveNeighbours(nextState, k) = 2 /\ currentState[k]

\* C2: the count the step makes for a cell is the number of live cells among
\* its eight neighbours with both axes wrapped (exact up to 3, above 3
\* otherwise); a lone live cell at (0,0) is counted by the three other corners.
C2_TorusNeighbours ==
    /\ \A c \in Cells :
          LET n == LiveNeighbours(currentState, c)
              m == CountNeighbors(currentState, c[1], c[2])
          IN  IF n <= 3 THEN m = n ELSE m > 3
    /\ LiveCells(currentState) = {<<0, 0>>} =>
          \A c \in {<<SIM_WIDTH - 1, 0>>, <<0, SIM_HEIGHT - 1>>,
                    <<SIM_WIDTH - 1, SIM_HEIGHT - 1>>} :
              CountNeighbors(currentState, c[1], c[2]) = 1

\* a step in which the far corner is born from (0,0) and the two cells that
\* reach it through one wrapped axis each
C2_Witness ==
    /\ stepped
    /\ LiveCells(nextState) = {<<0, 0>>, <<SIM_WIDTH - 1, 0>>, <<0, SIM_HEIGHT - 1>>}
    /\ currentState[<<SIM_WIDTH - 1, SIM_HEIGHT - 1>>]

\* a step that is a frame: the clock moves with frames only
FrameStep == ticks' # ticks

\* the cells of a sequence of calls, in the order of the calls
CellSeq(cs) == [i \in 1 .. Len(cs) |-> <<cs[i][1], cs[i][2]>>]

\* the previous sample and the sample of the frame being painted
PrevCell == <<lastMouseCellX, lastMouseCellY>>
MouseCell == <<CellOf(mouseX), CellOf(mouseY)>>

\* C3: Try_Paint_Point returns true exactly for a coordinate on the grid, a
\* cell changes only if it was passed to it, unwrapped, and calls that all
\* return false leave both buffers, the render points and the flag unchanged.
C3_BoundsChecked ==
    [][FrameStep =>
          /\ \A i \in 1 .. Len(calls') :
                calls'[i][3] = (<<calls'[i][1], calls'[i][2]>> \in Cells)
          /\ \A c \in Cells :
                currentState'[c] # currentState[c] => c \in CallCells(calls')
          /\ (\A i \in 1 .. Len(calls') : ~calls'[i][3]) => UNCHANGED simVars]_vars

\* a line from (W-1, H-1), accepted, to (W, 0), rejected
C3_Witness ==
    /\ ticks > TickShort
    /\ \E i, j \in 1 .. Len(calls) :
          /\ calls[i] = <<SIM_WIDTH - 1, SIM_HEIGHT - 1, TRUE>>
          /\ calls[j] = <<SIM_WIDTH, 0, FALSE>>

NoRepeat(seq) == \A i, j \in 1 .. Len(seq) : seq[i] = seq[j] => i = j

\* C4: a frame's painting makes alive exactly the dead grid cells passed to
\* Try_Paint_Point and appends each of them once, in call order, to the render
\* points; a live cell is neither changed nor appended, so no cell is in the
\* render points twice; nextState is not touched.
C4_PaintOnce ==
    [][FrameStep =>
          LET Fresh(c) == c \in Cells /\ ~currentState[c]
              fresh == SelectSeq(CellSeq(calls'), Fresh)
          IN  /\ nextState' = nextState
              /\ \A c \in Cells :
                    currentState'[c] = (currentState[c] \/ c \in CallCells(calls'))
              /\ renderPoints' = renderPoints \o fresh
              /\ needs_new_render' = (needs_new_render \/ fresh # <<>>)
              /\ NoRepeat(renderPoints')]_vars

\* the second of two samples at one grid cell: one call, nothing appended
C4_Witness ==
    /\ ~firstSample
    /\ stroke.samples = {stroke.last}
    /\ stroke.last \in Cells
    /\ calls = << <<stroke.last[1], stroke.last[2], TRUE>> >>
    /\ Cardinality({i \in 1 .. Len(renderPoints) : renderPoints[i] = stroke.last}) = 1

Adjacent(a, b) == Abs(a[1] - b[1]) <= 1 /\ Abs(a[2] - b[2]) <= 1

\* seq is a path: consecutive cells differ by at most 1 in each axis
IsPath(seq) == \A i \in 1 .. Len(seq) - 1 : Adjacent(seq[i], seq[i + 1])

\* seq starts and ends at a and b, in this order or swapped
JoinsCells(seq, a, b) ==
    /\ Len(seq) >= 1
    /\ \/ seq[1] = a /\ seq[Len(seq)] = b
       \/ seq[1] = b /\ seq[Len(seq)] = a

\* C5: the coordinates Paint_Line passes to Try_Paint_Point form a path from
\* one endpoint to the other, in the given order or swapped.
C5_LineConnected ==
    [][FrameStep /\ mouseDown /\ mouseWasDown =>
          /\ IsPath(CellSeq(calls'))
          /\ JoinsCells(CellSeq(calls'), PrevCell, MouseCell)]_vars

\* the steep line between (0,0) and (3,7) and the shallow one between (0,0)
\* and (7,3) cannot be met in one state; the steep one
C5_Witness ==
    /\ ticks > TickShort
    /\ Len(calls) = 8
    /\ <<calls[1][1], calls[1][2]>> = <<0, 0>>
    /\ <<calls[8][1], calls[8][2]>> = <<3, 7>>

Min(a, b) == IF a <= b THEN a ELSE b

\* C6: a horizontal line visits the cells from the smaller x to the larger x
\* of its row, each once, in increasing x.
C6_HorizontalLine ==
    [][FrameStep /\ mouseDown /\ mouseWasDown /\ PrevCell[2] = MouseCell[2] =>
          CellSeq(calls') =
              [i \in 1 .. Abs(MouseCell[1] - PrevCell[1]) + 1 |->
                  <<Min(PrevCell[1], MouseCell[1]) + i - 1, MouseCell[2]>>]]_vars

\* the line from (0,0) to (5,0) has been painted
C6_Witness ==
    /\ ticks > TickShort
    /\ stroke.first = <<0, 0>>
    /\ CellSeq(calls) = [i \in 1 .. 6 |-> <<i - 1, 0>>]

\* the cells of S reachable from R through adjacent cells of S
RECURSIVE Flood(_, _)
Flood(S, R) ==
    CHOOSE out \in {IF N = {} THEN R ELSE Flood(S, R \cup N) :
                       N \in {{c \in S \ R : \E r \in R : Adjacent(c, r)}}} : TRUE

Connected(S) == S = {} \/ Flood(S, {CHOOSE c \in S : TRUE}) = S

\* the cells of a stroke hang together and hold its first and last sample; if
\* all its samples are on the grid, so are its cells, and they are alive
StrokeJoined ==
    stroke.samples # {} =>
        /\ Connected(stroke.cells)
        /\ stroke.first \in stroke.cells
        /\ stroke.last \in stroke.cells
        /\ stroke.samples \subseteq Cells =>
               stroke.cells \subseteq LiveCells(currentState)

\* C8: with the button down in this frame and the previous one, PaintCells
\* passes to Try_Paint_Point a path between the previous sample's cell and the
\* current one and every grid cell of it is alive afterwards; the cells of a
\* stroke are 8-connected from its first to its last sample.
C8_StrokeContinuous ==
    [][FrameStep =>
          /\ mouseDown /\ mouseWasDown =>
                /\ PrevCell = stroke.last
                /\ IsPath(CellSeq(calls'))
                /\ JoinsCells(CellSeq(calls'), stroke.last, MouseCell)
                /\ \A c \in CallCells(calls') \cap Cells : currentState'[c]
          /\ StrokeJoined']_vars

\* a stroke of three samples on the grid
C8_Witness ==
    /\ Cardinality(stroke.samples) = 3
    /\ stroke.samples \subseteq Cells
    /\ stroke.first # stroke.last
    /\ Cardinality(stroke.cells) >= 5
    /\ stroke.cells \subseteq LiveCells(currentState)

\* C7: the first sample of a drag, a press that follows a release or the
\* start, passes the cell under the pointer to Try_Paint_Point and no other.
C7_FirstSampleOneCell ==
    firstSample => CellSeq(calls) = << <<lastMouseCellX, lastMouseCellY>> >>

\* C9: at the end of every frame the points last given to the renderer are
\* the render points.
C9_ScreenFollows == ticks > 0 => screen = renderPoints

\* C10: a frame at rate 0 calls no Update_Simulation: the buffers are not
\* swapped, last_step_time stays, and the grid changes by the frame's painting
\* only.
C10_PausedNoStep ==
    [][FrameStep /\ steps_per_second = 0 =>
          /\ ~stepped'
          /\ nextState' = nextState
          /\ last_step_time' = last_step_time
          /\ \A c \in Cells :
                currentState'[c] = (currentState[c] \/ c \in CallCells(calls'))]_vars

\* paused after a step, with live cells, a full period later
C10_Witness ==
    /\ steps_per_second = 0
    /\ ~stepped
    /\ last_step_time > 0
    /\ (ticks - last_step_time) * MAX_STEPS_PER_SECOND >= 1000
    /\ LiveCells(currentState) # {}

\* the grid after a frame's painting: the cells passed to Try_Paint_Point alive
Painted(cur, cs) == [c \in Cells |-> cur[c] \/ c \in CallCells(cs)]

\* one generation of the Game of Life on the torus
LifeStep(cur) ==
    [c \in Cells |->
        LET n == LiveNeighbours(cur, c) IN n = 3 \/ (n = 2 /\ cur[c])]

C12_NoCatchUp ==
    [][FrameStep /\ stepped' =>
          LET painted == Painted(currentState, calls')
          IN  /\ currentState' = LifeStep(painted)
              /\ nextState' = painted
              /\ renderPoints' = LiveFrom(LifeStep(painted), 0)
              /\ last_step_time' = ticks']_vars

\* the first frame after the rate was raised from 0, two periods after the
\* start, has stepped a live cell once
C12_Witness ==
    /\ stepped
    /\ elapsed.ms * elapsed.rate >= 2000
    /\ last_step_time = ticks
    /\ nextState # AllDead

Clamp(v, lo, hi) == IF v < lo THEN lo ELSE IF v > hi THEN hi ELSE v

\* C13: the rate is always within 0 .. MAX_STEPS_PER_SECOND, and a wheel event
\* with delta sets it to rate + delta clamped to this range.
C13_RateClamped ==
    /\ [](steps_per_second \in 0 .. MAX_STEPS_PER_SECOND)
    /\ [][\A delta \in WheelRange :
             MouseWheel(delta) =>
                 steps_per_second' =
                     Clamp(steps_per_second + delta, 0, MAX_STEPS_PER_SECOND)]_vars

\* the rate at its maximum, with the button down
C13_Witness ==
    /\ steps_per_second = MAX_STEPS_PER_SECOND
    /\ mouseDown

\* a comes before b in the order of the step's loops: x outer, y inner
LoopBefore(a, b) == a[1] < b[1] \/ (a[1] = b[1] /\ a[2] < b[2])

\* the cells of a sequence of render points
PointSet(pts) == {pts[i] : i \in 1 .. Len(pts)}

\* C14: after Update_Simulation the render points are exactly the cells alive
\* in the new current buffer, each once, in the order of the loops; nothing of
\* the points from before the step is left.
C14_RenderSetRebuilt ==
    [][stepped' =>
          /\ PointSet(renderPoints') = LiveCells(currentState')
          /\ \A i \in 1 .. Len(renderPoints') - 1 :
                LoopBefore(renderPoints'[i], renderPoints'[i + 1])]_vars

\* a step that left at least three live cells, in both wrapped and unwrapped
\* columns, and not the cells it started from
C14_Witness ==
    /\ stepped
    /\ Len(renderPoints) >= 3
    /\ renderPoints[1][1] = 0
    /\ renderPoints[Len(renderPoints)][1] = SIM_WIDTH - 1
    /\ LiveCells(nextState) # LiveCells(currentState)
    /\ LiveCells(nextState) # {}

\* C15: a frame that finds the grid all dead and paints no cell leaves it all
\* dead, whether it steps or not, so an unpainted grid stays dead for ever.
C15_NoSpontaneousLife ==
    [][FrameStep /\ currentState = AllDead /\ CallCells(calls') \cap Cells = {} =>
          currentState' = AllDead]_vars

\* a frame has stepped the all-dead grid: nextState is the grid it stepped
C15_Witness ==
    /\ stepped
    /\ elapsed.rate > 0
    /\ CallCells(calls) \cap Cells = {}
    /\ nextState = AllDead
    /\ currentState = AllDead

\* four calls of Update_Simulation
Step4(g) ==
    Update_Simulation(Update_Simulation(Update_Simulation(Update_Simulation(g))))

\* o moved by one cell in direction s, on the torus
Moved(o, s) ==
    <<(o[1] + s[1] + SIM_WIDTH) % SIM_WIDTH, (o[2] + s[2] + SIM_HEIGHT) % SIM_HEIGHT>>

\* C16: from a grid whose live cells are a glider, wherever it is and also
\* across the edges, four steps give the same glider moved by one cell along
\* each axis, modulo the width and height.
C16_GliderTranslates ==
    \A o \in Cells, s \in Directions :
        LiveCells(currentState) = GliderAt(o, s) =>
            LiveCells(Step4(Globals).cur) = GliderAt(Moved(o, s), s)

\* steps have brought a glider to the last column and row, across both edges
C16_Witness ==
    /\ stepped
    /\ LiveCells(currentState) = GliderAt(<<SIM_WIDTH - 1, SIM_HEIGHT - 1>>, <<1, 1>>)
    /\ LiveCells(nextState) # {}
    /\ nextState # AllAlive

\* the count of all eight neighbours of c, with no early exit
FullCount(cur, c) ==
    Cardinality({o \in Offsets : cur[<<WrapX(c[1] + o[1]), WrapY(c[2] + o[2])>>]})

\* the step computed with the full count
FullStep(cur) ==
    [c \in Cells |->
        LET neighbors == FullCount(cur, c)
        IN  IF cur[c] THEN ~(neighbors < 2 \/ neighbors > 3) ELSE neighbors = 3]

\* C17: the break in the count changes nothing: a step gives the current
\* buffer and the render points of the step computed with the full count.
C17_EarlyExitHarmless ==
    [][stepped' =>
          /\ currentState' = FullStep(currentState)
          /\ renderPoints' = LiveFrom(FullStep(currentState), 0)]_vars

\* a step of a grid in which the count of some cell left the inner loop early
\* and, with the outer loop running on, ended below the full count
C17_Witness ==
    /\ stepped
    /\ \E c \in Cells :
          /\ CountNeighbors(nextState, c[1], c[2]) > 4
          /\ CountNeighbors(nextState, c[1], c[2]) < FullCount(nextState, c)

\* C18: a step writes every cell of nextState, so that what nextState held
\* does not matter: the step from the same current buffer with nextState all
\* dead or all alive instead ends with the same two buffers and render points,
\* and therefore so does everything that follows.
C18_NextBufferOverwritten ==
    \A a \in {Update_Simulation(Globals)} :
        \A stale \in {AllDead, AllAlive} :
            \A b \in {Update_Simulation([Globals EXCEPT !.nxt = stale])} :
                /\ a.cur = b.cur
                /\ a.nxt = b.nxt
                /\ a.pts = b.pts

\* after a step, nextState holds a live cell where the coming step has a dead
\* one, and a dead cell where it has a live one
C18_Witness ==
    /\ stepped
    /\ \E c \in Cells : nextState[c] /\ ~FullStep(currentState)[c]
    /\ \E c \in Cells : ~nextState[c] /\ FullStep(currentState)[c]

\* C19: a line with dx = dy is drawn by the shallow branch: from the endpoint
\* with the smaller x it visits dx + 1 cells, one per column, moving one row
\* towards the other endpoint with each column.
C19_DiagonalLine ==
    [][FrameStep /\ mouseDown /\ mouseWasDown
         /\ Abs(MouseCell[1] - PrevCell[1]) = Abs(MouseCell[2] - PrevCell[2]) =>
          LET a == IF PrevCell[1] <= MouseCell[1] THEN PrevCell ELSE MouseCell
              b == IF PrevCell[1] <= MouseCell[1] THEN MouseCell ELSE PrevCell
              s == IF b[2] < a[2] THEN -1 ELSE 1
          IN  CellSeq(calls') =
                  [i \in 1 .. b[1] - a[1] + 1 |->
                      <<a[1] + i - 1, a[2] + s * (i - 1)>>]]_vars

\* the line between (0, LineMax) and (LineMax, 0), rising as x grows
C19_Witness ==
    /\ ticks > TickShort
    /\ CellSeq(calls) = [i \in 1 .. LineMax + 1 |-> <<i - 1, LineMax + 1 - i>>]

\* C20: between handlers the render points are exactly the cells alive in the
\* current buffer, each once, so their number is the number of live cells and
\* fits the renderPoints buffer of SIM_WIDTH * SIM_HEIGHT points.
C20_RenderSetIsLiveSet ==
    /\ PointSet(renderPoints) = LiveCells(currentState)
    /\ NoRepeat(renderPoints)
    /\ Len(renderPoints) = Cardinality(LiveCells(currentState))
    /\ Len(renderPoints) <= SIM_WIDTH * SIM_HEIGHT

\* after a step that left live cells, a later frame has painted a dead cell
\* without stepping
C20_Witness ==
    /\ last_step_time > 0
    /\ ~stepped
    /\ LiveCells(nextState) # {}
    /\ \E i \in 1 .. Len(calls) :
          /\ calls[i][3]
          /\ renderPoints[Len(renderPoints)] = <<calls[i][1], calls[i][2]>>
    /\ Len(renderPoints) > SIM_WIDTH

Max(a, b) == IF a >= b THEN a ELSE b

\* C21: Paint_Line visits max(dx, dy) + 1 different cells, one for each value
\* of the major coordinate from the start on, and each of them is within half
\* a cell of the straight line between the endpoints on the minor axis.
C21_NearestCells ==
    [][FrameStep /\ mouseDown /\ mouseWasDown =>
          LET dx == Abs(MouseCell[1] - PrevCell[1])
              dy == Abs(MouseCell[2] - PrevCell[2])
              major == IF dy <= dx THEN 1 ELSE 2
              minor == IF dy <= dx THEN 2 ELSE 1
              a == IF PrevCell[major] <= MouseCell[major] THEN PrevCell ELSE MouseCell
              b == IF PrevCell[major] <= MouseCell[major] THEN MouseCell ELSE PrevCell
              s == IF b[minor] < a[minor] THEN -1 ELSE 1
              dMajor == Max(dx, dy)
              dMinor == Min(dx, dy)
              seq == CellSeq(calls')
          IN  /\ Len(seq) = dMajor + 1
              /\ NoRepeat(seq)
              /\ \A i \in 1 .. Len(seq) :
                    /\ seq[i][major] = a[major] + i - 1
                    /\ 2 * Abs(dMajor * (seq[i][minor] - a[minor])
                               - s * dMinor * (seq[i][major] - a[major])) <= dMajor]_vars

\* the shallow line between (0,0) and (7,3) has been painted
C21_Witness ==
    /\ ticks > TickShort
    /\ Len(calls) = 8
    /\ <<calls[1][1], calls[1][2]>> = <<0, 0>>
    /\ <<calls[8][1], calls[8][2]>> = <<7, 3>>
    /\ stroke.first = <<7, 3>>

\* C22: Paint_Line does the same with its endpoints exchanged: the calls a
\* frame makes for the line from the previous sample to the current one, and
\* the grid and render points it leaves, are those of Paint_Line from the
\* current sample to the previous one.
C22_LineSymmetric ==
    [][FrameStep /\ mouseDown /\ mouseWasDown =>
          \A r \in {Paint_Line(Globals, MouseCell[1], MouseCell[2],
                               PrevCell[1], PrevCell[2])} :
              /\ calls' = r.calls
              /\ currentState' = r.cur
              /\ renderPoints' = r.pts]_vars

\* a drag backwards, against both axes, over more than two cells of the grid
C22_Witness ==
    /\ ticks > TickShort
    /\ stroke.first[1] > stroke.last[1]
    /\ stroke.first[2] > stroke.last[2]
    /\ Len(calls) > 2
    /\ <<calls[1][1], calls[1][2]>> = stroke.last
    /\ CallCells(calls) \subseteq Cells

====
